---- MODULE Spec2Model ----
(***************************************************************************)
(* A model of the login-url-generator scripts:                             *)
(*   generate_urls.py            the generation pipeline (module level)    *)
(*   upload_urls_to_snowflake.py the upload pipeline (main)                *)
(*   snowflake_connector.py      the session wrapper both use              *)
(*                                                                         *)
(* Text is modelled as a sequence of one-character strings, so that the    *)
(* CSV writer's quoting, the text-mode newline translation and the CSV     *)
(* reader's state machine are computed character by character.             *)
(***************************************************************************)
EXTENDS Naturals, Sequences, FiniteSets

(***************************************************************************)
(* Bounds of the model.                                                    *)
(***************************************************************************)
\* Most records the directory query returns in one generation run.
MaxRecords == 2
\* Most data lines of a CSV file handed to the upload pipeline.
MaxLines == 3
\* Most runs of the upload pipeline against the same table.
MaxRuns == 2
\* Most processed records written and read back in the round trip.
MaxRoundTrip == 2
\* The chunk size of the load: upload_urls_to_snowflake.py sets BATCH_SIZE
\* to 1000, and the model scales it down so that a load of MaxLines rows
\* takes several chunks.
ChunkSize == 2

BATCH_SIZE == ChunkSize
\* Most rows of a list handed to batch_insert_rows on its own.
MaxBatchRows == 4
\* Largest batch_size handed to batch_insert_rows on its own.
MaxBatchSize == 3

(***************************************************************************)
(* Text.                                                                   *)
(***************************************************************************)
\* Python's None, as a field value: no text is equal to it.
None == <<"<None>">>

\* The end-of-line marker the csv reader feeds its state machine after the
\* last character of every line.
EOL == "<EOL>"

LowerCase == <<"a","b","c","d","e","f","g","h","i","j","k","l","m",
               "n","o","p","q","r","s","t","u","v","w","x","y","z">>

UpperCase == <<"A","B","C","D","E","F","G","H","I","J","K","L","M",
               "N","O","P","Q","R","S","T","U","V","W","X","Y","Z">>

UpperChar(c) ==
    IF \E k \in 1..26 : LowerCase[k] = c
    THEN UpperCase[CHOOSE k \in 1..26 : LowerCase[k] = c]
    ELSE c

\* str.upper()
upper(s) == [k \in 1..Len(s) |-> UpperChar(s[k])]

\* sub in s
Contains(sub, s) ==
    \E k \in 0..Len(s) :
        /\ k + Len(sub) <= Len(s)
        /\ SubSeq(s, k + 1, k + Len(sub)) = sub

\* s.startswith(p)
startswith(s, p) == Len(s) >= Len(p) /\ SubSeq(s, 1, Len(p)) = p

ERROR == <<"E","R","R","O","R">>

ERROR_PREFIX == <<"E","R","R","O","R",":"," ">>

\* The literal '\\\\' of generate_urls.py: two backslash characters.
BACKSLASH2 == <<"\\","\\">>

Range(s) == {s[k] : k \in 1..Len(s)}

(***************************************************************************)
(* csv.DictWriter over a file opened with newline='': the excel dialect,   *)
(* QUOTE_MINIMAL, doublequote, lineterminator '\r\n'.                      *)
(***************************************************************************)
fieldnames == << <<"a","c","c","o","u","n","t","_","n","a","m","e">>,
                 <<"d","e","p","l","o","y","m","e","n","t">>,
                 <<"c","l","a","s","s","i","c","_","u","i","_","u","r","l">> >>

ACCOUNT_NAME_KEY == fieldnames[1]
DEPLOYMENT_KEY == fieldnames[2]
URL_KEY == fieldnames[3]

NeedsQuote(f) == \E k \in 1..Len(f) : f[k] \in {",", "\"", "\r", "\n"}

RECURSIVE DoubleQuotes(_)
DoubleQuotes(f) ==
    IF f = <<>> THEN <<>>
    ELSE (IF Head(f) = "\"" THEN <<"\"", "\"">> ELSE <<Head(f)>>)
         \o DoubleQuotes(Tail(f))

\* One field as the writer emits it; None is written as the empty field.
WriteFieldUnquoted(f) == IF f = None THEN <<>> ELSE f

WriteField(f) ==
    IF f = None THEN <<>>
    ELSE IF NeedsQuote(f) THEN <<"\"">> \o DoubleQuotes(f) \o <<"\"">>
    ELSE f

RECURSIVE JoinFields(_)
JoinFields(fs) ==
    IF fs = <<>> THEN <<>>
    ELSE IF Len(fs) = 1 THEN WriteField(fs[1])
    ELSE WriteField(fs[1]) \o <<",">> \o JoinFields(Tail(fs))

\* writer.writerow(row): the text appended to the file object's buffer.
writerow(row) ==
    JoinFields(<<row.account_name, row.deployment, row.classic_ui_url>>)
    \o <<"\r", "\n">>

\* writer.writeheader()
writeheader == JoinFields(fieldnames) \o <<"\r", "\n">>

(***************************************************************************)
(* open(csv_filename, 'r', encoding='utf-8'): text mode with the default   *)
(* newline=None, which translates '\r\n' and a lone '\r' to '\n', also     *)
(* inside a quoted field.                                                  *)
(***************************************************************************)
\* The text character k of t becomes when the file is read in text mode.
TranslatedChar(t, k) ==
    IF t[k] = "\r" THEN <<"\n">>
    ELSE IF t[k] = "\n" /\ k > 1 /\ t[k - 1] = "\r" THEN <<>>
    ELSE <<t[k]>>

RECURSIVE TranslateRange(_, _, _)
TranslateRange(t, lo, hi) ==
    IF lo > hi THEN <<>>
    ELSE IF lo = hi THEN TranslatedChar(t, lo)
    ELSE LET mid == (lo + hi) \div 2
         IN TranslateRange(t, lo, mid) \o TranslateRange(t, mid + 1, hi)

UniversalNewlines(t) == TranslateRange(t, 1, Len(t))

\* The file object iterated line by line: EOL after the last character of
\* every line, the last line included when it has no '\n'.
LineChar(t, k) ==
    IF t[k] = "\n" THEN <<"\n", EOL>>
    ELSE IF k = Len(t) THEN <<t[k], EOL>>
    ELSE <<t[k]>>

RECURSIVE LineRange(_, _, _)
LineRange(t, lo, hi) ==
    IF lo > hi THEN <<>>
    ELSE IF lo = hi THEN LineChar(t, lo)
    ELSE LET mid == (lo + hi) \div 2
         IN LineRange(t, lo, mid) \o LineRange(t, mid + 1, hi)

LineStream(t) == LineRange(t, 1, Len(t))

(***************************************************************************)
(* csv.reader: the state machine of the excel dialect (not strict), one    *)
(* character at a time.  A record is complete when the machine is back in  *)
(* START_RECORD at the end of a line; at the end of the input an open      *)
(* quoted field is saved.                                                  *)
(***************************************************************************)
ReaderStart == [state |-> "START_RECORD", field |-> <<>>, fields |-> <<>>,
                rows |-> <<>>]

ReaderStep(r, c) ==
    LET st == IF r.state = "START_RECORD" /\ c \notin {EOL, "\n", "\r"}
              THEN "START_FIELD" ELSE r.state
        ends == {"START_FIELD", "IN_FIELD", "QUOTE_IN_QUOTED_FIELD"}
    IN
    CASE st = "START_RECORD" /\ c = EOL ->
           [r EXCEPT !.rows = Append(@, <<>>)]
      [] st = "START_RECORD" /\ c # EOL ->
           [r EXCEPT !.state = "EAT_CRNL"]
      [] st \in ends /\ c = EOL ->
           [state |-> "START_RECORD", field |-> <<>>, fields |-> <<>>,
            rows |-> Append(r.rows, Append(r.fields, r.field))]
      [] st \in ends /\ c \in {"\n", "\r"} ->
           [r EXCEPT !.state = "EAT_CRNL", !.field = <<>>,
                     !.fields = Append(@, r.field)]
      [] st \in ends /\ c = "," ->
           [r EXCEPT !.state = "START_FIELD", !.field = <<>>,
                     !.fields = Append(@, r.field)]
      [] st = "START_FIELD" /\ c = "\"" ->
           [r EXCEPT !.state = "IN_QUOTED_FIELD"]
      [] st \in {"START_FIELD", "IN_FIELD"}
            /\ c \notin {EOL, "\n", "\r", ","} /\ ~(st = "START_FIELD" /\ c = "\"") ->
           [r EXCEPT !.state = "IN_FIELD", !.field = Append(@, c)]
      [] st = "IN_QUOTED_FIELD" /\ c = EOL -> r
      [] st = "IN_QUOTED_FIELD" /\ c = "\"" ->
           [r EXCEPT !.state = "QUOTE_IN_QUOTED_FIELD"]
      [] st = "IN_QUOTED_FIELD" /\ c \notin {EOL, "\""} ->
           [r EXCEPT !.field = Append(@, c)]
      [] st = "QUOTE_IN_QUOTED_FIELD" /\ c = "\"" ->
           [r EXCEPT !.state = "IN_QUOTED_FIELD", !.field = Append(@, c)]
      [] st = "QUOTE_IN_QUOTED_FIELD" /\ c \notin {EOL, "\n", "\r", ",", "\""} ->
           [r EXCEPT !.state = "IN_FIELD", !.field = Append(@, c)]
      [] st = "EAT_CRNL" /\ c = EOL ->
           [state |-> "START_RECORD", field |-> <<>>, fields |-> <<>>,
            rows |-> Append(r.rows, r.fields)]
      [] st = "EAT_CRNL" /\ c \in {"\n", "\r"} -> r
      \* _csv.Error: new-line character seen in unquoted field
      [] st = "EAT_CRNL" /\ c \notin {EOL, "\n", "\r"} ->
           [r EXCEPT !.state = "Error"]

\* The machine run over stream[lo..hi] from r; it stops where it raises.
RECURSIVE ReaderRun(_, _, _, _)
ReaderRun(r, stream, lo, hi) ==
    IF lo > hi THEN r
    ELSE IF lo = hi THEN ReaderStep(r, stream[lo])
    ELSE LET mid == (lo + hi) \div 2
             left == ReaderRun(r, stream, lo, mid)
         IN IF left.state = "Error" THEN left
            ELSE ReaderRun(left, stream, mid + 1, hi)

\* csv.reader(f) over the text of a file read in text mode: its records,
\* or raised = TRUE when it raises _csv.Error.
CsvReader(text) ==
    LET stream == LineStream(UniversalNewlines(text))
        r == ReaderRun(ReaderStart, stream, 1, Len(stream))
    IN [raised |-> r.state = "Error",
        rows |-> IF r.state = "IN_QUOTED_FIELD"
                 THEN Append(r.rows, Append(r.fields, r.field))
                 ELSE r.rows]

(***************************************************************************)
(* csv.DictReader: the first record names the fields; empty records are    *)
(* skipped; a short record gets restval None for the fields it lacks and a *)
(* long one keeps the surplus under restkey None.                          *)
(***************************************************************************)
Max(S) == CHOOSE m \in S : \A n \in S : n <= m

DictRow(names, row) ==
    LET keys == Range(names) \cup (IF Len(row) > Len(names) THEN {None} ELSE {})
    IN [k \in keys |->
          IF k = None /\ Len(row) > Len(names)
          THEN SubSeq(row, Len(names) + 1, Len(row))
          ELSE LET m == Max({j \in 1..Len(names) : names[j] = k})
               IN IF m <= Len(row) THEN row[m] ELSE None]

DictReader(text) ==
    LET recs == CsvReader(text)
    IN IF recs.raised \/ recs.rows = <<>>
       THEN [raised |-> recs.raised, rows |-> <<>>]
       ELSE LET data == SelectSeq(Tail(recs.rows), LAMBDA r : r # <<>>)
            IN [raised |-> FALSE,
                rows |-> [k \in 1..Len(data) |-> DictRow(recs.rows[1], data[k])]]

\* row.get(key, default)
get(row, key, default) == IF key \in DOMAIN row THEN row[key] ELSE default

\* Python truth value of a field: None and '' are false.
Falsy(v) == v = None \/ v = <<>>

(***************************************************************************)
(* upload_urls_to_snowflake.py: read_and_filter_csv.                       *)
(***************************************************************************)
\* A file that does not exist.
NoFile == <<"<nofile>">>

NoRaise == "none"

\* 'ERROR' in classic_ui_url.upper()
IsErrorUrl(classic_ui_url) == Contains(ERROR, upper(classic_ui_url))

IsEmptyRowAnyField(row, classic_ui_url) ==
    \/ Falsy(get(row, ACCOUNT_NAME_KEY, None))
    \/ Falsy(get(row, DEPLOYMENT_KEY, None))
    \/ Falsy(classic_ui_url)

\* not row.get('account_name') or not classic_ui_url
IsEmptyRow(row, classic_ui_url) ==
    Falsy(get(row, ACCOUNT_NAME_KEY, None)) \/ Falsy(classic_ui_url)

\* The for loop over the reader.  None has no upper(): the loop raises
\* AttributeError at a row whose classic_ui_url is None.
RECURSIVE FilterLoop(_, _, _, _)
FilterLoop(rows, filtered, total, errors) ==
    IF rows = <<>>
    THEN [raised |-> NoRaise, filtered_rows |-> filtered,
          total_count |-> total, error_count |-> errors]
    ELSE LET row == Head(rows)
             classic_ui_url == get(row, URL_KEY, <<>>)
         IN IF classic_ui_url = None
            THEN [raised |-> "AttributeError", filtered_rows |-> filtered,
                  total_count |-> total + 1, error_count |-> errors]
            ELSE IF IsErrorUrl(classic_ui_url)
            THEN FilterLoop(Tail(rows), filtered, total + 1, errors + 1)
            ELSE IF IsEmptyRow(row, classic_ui_url)
            THEN FilterLoop(Tail(rows), filtered, total + 1, errors + 1)
            ELSE FilterLoop(Tail(rows), Append(filtered, row), total + 1, errors)

read_and_filter_csv(file) ==
    IF file = NoFile
    THEN [raised |-> "FileNotFoundError", filtered_rows |-> <<>>,
          total_count |-> 0, error_count |-> 0]
    ELSE IF DictReader(file).raised
    THEN [raised |-> "csv.Error", filtered_rows |-> <<>>,
          total_count |-> 0, error_count |-> 0]
    ELSE FilterLoop(DictReader(file).rows, <<>>, 0, 0)


(***************************************************************************)
(* State.                                                                  *)
(***************************************************************************)
VARIABLES
    pc,                   \* the statement the running script is at
    raised,               \* the exception raised in this run, with its stage
    csvDisk,              \* a CSV file as stable storage holds it
    \* generate_urls.py
    skip_processed_check, \* args.skip_processed_check
    existing_csv,         \* the file EXISTING_CSV names
    processed_accounts,
    all_results,
    results,
    sf1,
    sf2,
    csvfile,              \* the output file object: None, open or closed
    csvBuf,               \* text written to csvfile and not yet flushed
    idx,                  \* the for loop's position in results
    result,               \* what the remote call of this iteration gave
    written,              \* rows handed to writer.writerow, in order
    calls,                \* the records a remote call was issued for, in order
    processed_count,
    \* upload_urls_to_snowflake.py
    filtered_rows,
    total_count,
    error_count,
    sf,
    table,                \* the rows of the target table
    i,                    \* batch_insert_rows: the range position
    total_inserted,
    actual_count,
    trace,                \* the stages this run of main has entered
    runs,                 \* runs of main so far
    table0,               \* the table as this run of main found it
    loads,                \* the runs of main that completed a load
    batch_size,           \* batch_insert_rows: the batch_size argument
    batches               \* the batch_data handed to executemany, in order

genVars == <<skip_processed_check, existing_csv, processed_accounts,
             all_results, results, sf1, sf2, csvfile, csvBuf, idx, result,
             written, calls, processed_count>>

uploadVars == <<filtered_rows, total_count, error_count, sf, table, i,
                total_inserted, actual_count, trace, runs, table0, loads,
                batch_size, batches>>

vars == <<pc, raised, csvDisk, genVars, uploadVars>>

NoExc == [stage |-> "none", name |-> "none"]

\* No remote call has answered yet.
NoResult == [kind |-> "none", text |-> <<>>]

(***************************************************************************)
(* snowflake_connector.py: SnowflakeConnection.                            *)
(***************************************************************************)
\* __init__: self.connection = None, self.cursor = None
SnowflakeConnection == [connection |-> "None", cursor |-> "None"]

\* connect(), when snowflake.connector.connect and cursor() succeed
connect(s) == [connection |-> "open", cursor |-> "open"]

\* execute_query raises at once when there is no cursor
CanExecute(s) == s.cursor # "None"

\* close(): closes the cursor and the connection that exist
close(s) ==
    [connection |-> IF s.connection # "None" THEN "closed" ELSE s.connection,
     cursor |-> IF s.cursor # "None" THEN "closed" ELSE s.cursor]

(***************************************************************************)
(* The generation pipeline's state while the upload pipeline runs.         *)
(***************************************************************************)
GenIdle ==
    /\ skip_processed_check = FALSE
    /\ existing_csv = NoFile
    /\ processed_accounts = {}
    /\ all_results = <<>>
    /\ results = <<>>
    /\ sf1 = SnowflakeConnection
    /\ sf2 = SnowflakeConnection
    /\ csvfile = "None"
    /\ csvBuf = <<>>
    /\ idx = 0
    /\ result = NoResult
    /\ written = <<>>
    /\ calls = <<>>
    /\ processed_count = 0

(***************************************************************************)
(* upload_urls_to_snowflake.py: main and the functions it calls.           *)
(***************************************************************************)
\* A table that does not exist.
NoTable == [exists |-> FALSE, rows |-> <<>>]

TableOf(rows) == [exists |-> TRUE, rows |-> rows]

SeqsUpTo(S, n) == UNION {[1..k -> S] : k \in 0..n}

RECURSIVE Concat(_)
Concat(ss) == IF ss = <<>> THEN <<>> ELSE Head(ss) \o Concat(Tail(ss))

\* Data lines a CSV file handed to main may hold.
LinePool ==
    { <<"A", ",", "d", "1", ",", "u", "r", "l", "1">>,
      <<"B", ",", "d", "2", ",", "E", "R", "R", "O", "R", ":", " ", "x">>,
      <<"C", ",", ",", "u", "r", "l", "3">>,
      <<"D", ",", "d", "1", ",", "E", "r", "r", "o", "r">>,
      <<",", "d", "1", ",", "u", "r", "l", "1">>,
      <<"A", ",", "d", "1">> }

FileOf(lines) ==
    writeheader
    \o Concat([k \in 1..Len(lines) |-> lines[k] \o <<"\r", "\n">>])

UploadFiles == {NoFile, <<>>} \cup {FileOf(ls) : ls \in SeqsUpTo(LinePool, MaxLines)}

OldRow == << <<"Z">>, <<"d", "0">>, <<"u", "r", "l", "0">> >>

\* batch_data: (row['account_name'], row['deployment'], row['classic_ui_url'])
RowTuple(row) == <<row[ACCOUNT_NAME_KEY], row[DEPLOYMENT_KEY], row[URL_KEY]>>

Min(a, b) == IF a <= b THEN a ELSE b

BatchIgnoresOffset(rows, at, size) ==
    SubSeq(rows, 1, Min(size, Len(rows)))

\* rows[i:i + batch_size]
Batch(rows, at, size) ==
    SubSeq(rows, at + 1, Min(at + size, Len(rows)))

\* The statements of main's try block, in the order main runs them.
StageOrderTruncateLast ==
    <<"connect", "verify_connection", "create_table", "insert",
      "truncate_table", "verify_count">>

StageOrder ==
    <<"connect", "verify_connection", "create_table", "truncate_table",
      "insert", "verify_count">>

\* The statement after statement p of the try block; the finally block
\* follows the last.
NextStage(p) ==
    LET k == CHOOSE j \in 1..Len(StageOrder) : StageOrder[j] = p
    IN IF k = Len(StageOrder) THEN "finally" ELSE StageOrder[k + 1]

\* The stage of the pipeline a statement belongs to.
StageOf(p) ==
    CASE p = "read_csv" -> "READ_CSV"
      [] p \in {"connect", "verify_connection"} -> "CONNECT"
      [] p = "create_table" -> "CREATE_TABLE"
      [] p = "truncate_table" -> "TRUNCATE"
      [] p = "insert" -> "INSERT_BATCHES"
      [] p = "verify_count" -> "VERIFY_COUNT"
      [] p = "finally" -> "CLOSE"

UploadInit ==
    /\ pc = "read_csv"
    /\ raised = NoExc
    /\ csvDisk \in UploadFiles
    /\ filtered_rows = <<>>
    /\ total_count = 0
    /\ error_count = 0
    /\ sf = SnowflakeConnection
    /\ table \in {NoTable, TableOf(<<OldRow>>)}
    /\ i = 0
    /\ total_inserted = 0
    /\ actual_count = 0
    /\ trace = <<>>
    /\ runs = 1
    /\ table0 = table
    /\ loads = <<>>
    /\ batch_size = BATCH_SIZE
    /\ batches = <<>>
    /\ GenIdle

AfterReadAlwaysConnects(r) ==
    IF r.raised # NoRaise THEN "returned" ELSE "connect"

\* Where main goes after the read: it returns on an exception (lines 162-167)
\* and when no valid row is left (lines 169-171).
AfterRead(r) ==
    IF r.raised # NoRaise \/ r.filtered_rows = <<>> THEN "returned"
    ELSE "connect"

\* main, lines 154-179: read and filter, return early on an exception or
\* when no valid row is left, else construct the session object.
ReadCsv ==
    /\ pc = "read_csv"
    /\ trace' = Append(trace, StageOf(pc))
    /\ LET r == read_and_filter_csv(csvDisk)
       IN IF r.raised # NoRaise
          THEN /\ raised' = [stage |-> StageOf(pc), name |-> r.raised]
               /\ pc' = AfterRead(r)
               /\ UNCHANGED <<filtered_rows, total_count, error_count>>
          ELSE /\ filtered_rows' = r.filtered_rows
               /\ total_count' = r.total_count
               /\ error_count' = r.error_count
               /\ pc' = AfterRead(r)
               /\ UNCHANGED raised
    /\ UNCHANGED <<csvDisk, genVars, sf, table, i, total_inserted,
                   actual_count, runs, table0, loads,
                   batch_size, batches>>

\* A statement of the try block raises: control passes to the except block.
Raise(name) ==
    /\ raised' = [stage |-> StageOf(pc), name |-> name]
    /\ pc' = "except"

\* sf.connect(), line 183
Connect ==
    /\ pc = "connect"
    /\ trace' = Append(trace, StageOf(pc))
    /\ \/ /\ sf' = connect(sf)
          /\ pc' = NextStage(pc)
          /\ UNCHANGED raised
       \/ /\ Raise("ConnectionError")
          /\ UNCHANGED sf
    /\ UNCHANGED <<csvDisk, genVars, filtered_rows, total_count, error_count,
                   table, i, total_inserted, actual_count, runs, table0, loads,
                   batch_size, batches>>

\* the connection check, lines 186-190
VerifyConnection ==
    /\ pc = "verify_connection"
    /\ \/ /\ CanExecute(sf)
          /\ pc' = NextStage(pc)
          /\ UNCHANGED raised
       \/ Raise("StatementError")
    /\ UNCHANGED <<csvDisk, genVars, filtered_rows, total_count, error_count,
                   sf, table, i, total_inserted, actual_count, trace, runs,
                   table0, loads,
                   batch_size, batches>>

\* create_table, lines 57-77: CREATE TABLE IF NOT EXISTS
CreateTable ==
    /\ pc = "create_table"
    /\ trace' = Append(trace, StageOf(pc))
    /\ \/ /\ CanExecute(sf)
          /\ table' = IF table.exists THEN table ELSE TableOf(<<>>)
          /\ pc' = NextStage(pc)
          /\ UNCHANGED raised
       \/ /\ Raise("StatementError")
          /\ UNCHANGED table
    /\ UNCHANGED <<csvDisk, genVars, filtered_rows, total_count, error_count,
                   sf, i, total_inserted, actual_count, runs, table0, loads,
                   batch_size, batches>>

TruncatedKeepsRows(t) == t

\* The table after TRUNCATE TABLE.
Truncated(t) == TableOf(<<>>)

\* truncate_table, lines 80-94; the statement fails on a missing table
TruncateTable ==
    /\ pc = "truncate_table"
    /\ trace' = Append(trace, StageOf(pc))
    /\ \/ /\ CanExecute(sf)
          /\ table.exists
          /\ table' = Truncated(table)
          /\ pc' = NextStage(pc)
          /\ UNCHANGED raised
       \/ /\ Raise("StatementError")
          /\ UNCHANGED table
    /\ UNCHANGED <<csvDisk, genVars, filtered_rows, total_count, error_count,
                   sf, i, total_inserted, actual_count, runs, table0, loads,
                   batch_size, batches>>

\* batch_insert_rows, lines 112-139: one pass of the for loop, in which
\* executemany (line 134) is handed the batch and succeeds or raises, and
\* the return when the range is exhausted
InsertBatch ==
    /\ pc = "insert"
    /\ trace' = Append(trace, StageOf(pc))
    /\ IF i >= Len(filtered_rows)
       THEN /\ pc' = NextStage(pc)
            /\ UNCHANGED <<raised, table, total_inserted, i, batches>>
       ELSE LET batch == Batch(filtered_rows, i, batch_size)
                batch_data == [k \in 1..Len(batch) |-> RowTuple(batch[k])]
            IN /\ batches' = Append(batches, batch_data)
               /\ \/ /\ sf.cursor = "open"
                     /\ table.exists
                     /\ table' = TableOf(table.rows \o batch_data)
                     /\ total_inserted' = total_inserted + Len(batch)
                     /\ i' = i + batch_size
                     /\ pc' = IF i + batch_size < Len(filtered_rows)
                              THEN "insert" ELSE NextStage(pc)
                     /\ UNCHANGED raised
                  \/ /\ Raise("StatementError")
                     /\ UNCHANGED <<table, total_inserted, i>>
    /\ UNCHANGED <<csvDisk, genVars, filtered_rows, total_count, error_count,
                   sf, actual_count, runs, table0, loads, batch_size>>

\* the count query, lines 202-214
VerifyCount ==
    /\ pc = "verify_count"
    /\ trace' = Append(trace, StageOf(pc))
    /\ \/ /\ CanExecute(sf)
          /\ table.exists
          /\ actual_count' = Len(table.rows)
          /\ pc' = NextStage(pc)
          /\ UNCHANGED raised
       \/ /\ Raise("StatementError")
          /\ UNCHANGED actual_count
    /\ UNCHANGED <<csvDisk, genVars, filtered_rows, total_count, error_count,
                   sf, table, i, total_inserted, runs, table0, loads,
                   batch_size, batches>>

\* except Exception as e: print, raise (lines 216-218)
ExceptBlock ==
    /\ pc = "except"
    /\ pc' = "finally"
    /\ UNCHANGED <<raised, csvDisk, genVars, uploadVars,
                   batch_size, batches>>

\* Where main ends after its finally block.
AfterFinally(exc) == IF exc = NoExc THEN "returned" ELSE "raised"

\* finally: sf.close() (lines 220-222), then main returns or the exception
\* leaves main
FinallyBlock ==
    /\ pc = "finally"
    /\ trace' = Append(trace, StageOf(pc))
    /\ sf' = close(sf)
    /\ pc' = AfterFinally(raised)
    /\ loads' = IF raised = NoExc
                THEN Append(loads, [rows |-> filtered_rows, before |-> table0,
                                    after |-> table, count |-> actual_count,
                                    inserted |-> total_inserted])
                ELSE loads
    /\ UNCHANGED <<raised, csvDisk, genVars, filtered_rows, total_count,
                   error_count, table, i, total_inserted, actual_count, runs,
                   table0,
                   batch_size, batches>>

\* main is run again, on the same file and the table as the last run left it
RunAgain ==
    /\ pc \in {"returned", "raised"}
    /\ runs < MaxRuns
    /\ runs' = runs + 1
    /\ pc' = "read_csv"
    /\ raised' = NoExc
    /\ filtered_rows' = <<>>
    /\ total_count' = 0
    /\ error_count' = 0
    /\ sf' = SnowflakeConnection
    /\ i' = 0
    /\ total_inserted' = 0
    /\ actual_count' = 0
    /\ trace' = <<>>
    /\ table0' = table
    /\ batches' = <<>>
    /\ UNCHANGED <<csvDisk, genVars, table, loads, batch_size>>

UploadNext ==
    \/ ReadCsv
    \/ Connect
    \/ VerifyConnection
    \/ CreateTable
    \/ TruncateTable
    \/ InsertBatch
    \/ VerifyCount
    \/ ExceptBlock
    \/ FinallyBlock
    \/ RunAgain

SpecUpload == UploadInit /\ [][UploadNext]_vars


(***************************************************************************)
(* batch_insert_rows on its own, for any row list and batch size.          *)
(***************************************************************************)
\* Rows a list handed to batch_insert_rows may hold.
BatchRowPool ==
    { DictRow(fieldnames, << <<"A">>, <<"d", "1">>, <<"u", "r", "l", "1">> >>),
      DictRow(fieldnames, << <<"B">>, <<"d", "2">>, <<"u", "r", "l", "2">> >>),
      DictRow(fieldnames, << <<"C">>, <<>>, <<"u", "r", "l", "3">> >>) }

\* The call batch_insert_rows(sf, database, schema, table, rows, batch_size)
\* on a connected session and an existing, empty table.
BatchInit ==
    /\ pc = "insert"
    /\ raised = NoExc
    /\ csvDisk = NoFile
    /\ filtered_rows \in SeqsUpTo(BatchRowPool, MaxBatchRows)
    /\ batch_size \in 1..MaxBatchSize
    /\ total_count = Len(filtered_rows)
    /\ error_count = 0
    /\ sf = connect(SnowflakeConnection)
    /\ table = TableOf(<<>>)
    /\ i = 0
    /\ total_inserted = 0
    /\ actual_count = 0
    /\ trace = <<>>
    /\ runs = 1
    /\ table0 = table
    /\ loads = <<>>
    /\ batches = <<>>
    /\ GenIdle

BatchNext == InsertBatch

SpecBatch == BatchInit /\ [][BatchNext]_vars

(***************************************************************************)
(* The upload pipeline's state while the generation pipeline runs.         *)
(***************************************************************************)
UploadIdle ==
    /\ filtered_rows = <<>>
    /\ total_count = 0
    /\ error_count = 0
    /\ sf = SnowflakeConnection
    /\ table = NoTable
    /\ i = 0
    /\ total_inserted = 0
    /\ actual_count = 0
    /\ trace = <<>>
    /\ runs = 1
    /\ table0 = NoTable
    /\ loads = <<>>
    /\ batch_size = BATCH_SIZE
    /\ batches = <<>>

(***************************************************************************)
(* generate_urls.py.                                                       *)
(***************************************************************************)
\* Rows the directory query may return.
RecordPool ==
    { [ACCOUNT_NAME |-> <<"A">>, DEPLOYMENT |-> <<"d", "1">>,
       CLASSIC_UI_URL |-> <<"r", "1">>],
      [ACCOUNT_NAME |-> <<"B">>, DEPLOYMENT |-> <<"d", "2">>,
       CLASSIC_UI_URL |-> <<"r", "2">>],
      [ACCOUNT_NAME |-> <<"\\", "\\", "A">>, DEPLOYMENT |-> <<"d", "1">>,
       CLASSIC_UI_URL |-> <<"r", "1">>] }

\* What the remote call of one record may give: a URL, or an exception
\* with its message.
ResultPool ==
    { [kind |-> "ok", text |-> <<"u", "r", "l", "1">>],
      [kind |-> "error", text |-> <<"r", "a", "t", "e", " ", "l", "i", "m",
                                    "i", "t", "e", "d">>],
      [kind |-> "error", text |-> <<"x">>] }

\* The file EXISTING_CSV as an earlier run left it, for the names it holds.
PriorFile(names) ==
    writeheader
    \o Concat([k \in 1..Len(names) |->
                  writerow([account_name |-> names[k],
                            deployment |-> <<"d", "1">>,
                            classic_ui_url |-> <<"u", "r", "l", "1">>])])

PriorFiles ==
    {NoFile} \cup {PriorFile(ns) : ns \in {<<>>, << <<"A">> >>, << <<"B">> >>,
                                           << <<"A">>, <<"B">> >>}}

GenInit ==
    /\ pc = "load_processed"
    /\ raised = NoExc
    /\ csvDisk = NoFile
    /\ skip_processed_check \in BOOLEAN
    /\ existing_csv \in PriorFiles
    /\ processed_accounts = {}
    /\ all_results = <<>>
    /\ results = <<>>
    /\ sf1 = SnowflakeConnection
    /\ sf2 = SnowflakeConnection
    /\ csvfile = "None"
    /\ csvBuf = <<>>
    /\ idx = 0
    /\ result = NoResult
    /\ written = <<>>
    /\ calls = <<>>
    /\ processed_count = 0
    /\ UploadIdle

\* lines 18-33: the account names of the prior file, unless the check is
\* skipped or the file is missing
LoadedAccounts(skip, file) ==
    IF ~skip /\ file # NoFile
    THEN {row[ACCOUNT_NAME_KEY] : row \in Range(DictReader(file).rows)}
    ELSE {}

LoadProcessed ==
    /\ pc = "load_processed"
    /\ processed_accounts' = LoadedAccounts(skip_processed_check, existing_csv)
    /\ pc' = "c1_connect"
    /\ UNCHANGED <<raised, csvDisk, skip_processed_check, existing_csv,
                   all_results, results, sf1, sf2, csvfile, csvBuf, idx,
                   result, written, calls, processed_count, uploadVars>>

\* A statement of a try block raises: control passes to its finally block.
GenRaise(stage, name, finally) ==
    /\ raised' = [stage |-> stage, name |-> name]
    /\ pc' = finally

\* sf1.connect(), line 50
Connect1 ==
    /\ pc = "c1_connect"
    /\ \/ /\ sf1' = connect(sf1)
          /\ pc' = "c1_test"
          /\ UNCHANGED raised
       \/ /\ GenRaise("CONNECT_1", "ConnectionError", "c1_finally")
          /\ UNCHANGED sf1
    /\ UNCHANGED <<csvDisk, skip_processed_check, existing_csv,
                   processed_accounts, all_results, results, sf2, csvfile,
                   csvBuf, idx, result, written, calls, processed_count,
                   uploadVars>>

\* the test query, lines 53-54
TestQuery1 ==
    /\ pc = "c1_test"
    /\ \/ /\ CanExecute(sf1)
          /\ pc' = "c1_query"
          /\ UNCHANGED raised
       \/ GenRaise("TEST_QUERY_1", "StatementError", "c1_finally")
    /\ UNCHANGED <<csvDisk, genVars, uploadVars>>

\* the directory query, line 78
QueryAccounts ==
    /\ pc = "c1_query"
    /\ \/ /\ CanExecute(sf1)
          /\ all_results' \in SeqsUpTo(RecordPool, MaxRecords)
          /\ pc' = "reconcile"
          /\ UNCHANGED raised
       \/ /\ GenRaise("DIRECTORY_QUERY", "StatementError", "c1_finally")
          /\ UNCHANGED all_results
    /\ UNCHANGED <<csvDisk, skip_processed_check, existing_csv,
                   processed_accounts, results, sf1, sf2, csvfile, csvBuf,
                   idx, result, written, calls, processed_count, uploadVars>>

ReconciledKeepsAll(all, skip, processed) == all

\* lines 81-98: the rows whose ACCOUNT_NAME is not among the processed
\* accounts; all rows when the check is skipped or nothing was processed
Reconciled(all, skip, processed) ==
    IF all # <<>>
    THEN IF ~skip /\ processed # {}
         THEN SelectSeq(all, LAMBDA row : row.ACCOUNT_NAME \notin processed)
         ELSE all
    ELSE <<>>

Reconcile ==
    /\ pc = "reconcile"
    /\ results' = Reconciled(all_results, skip_processed_check,
                             processed_accounts)
    /\ pc' = "c1_finally"
    /\ UNCHANGED <<raised, csvDisk, skip_processed_check, existing_csv,
                   processed_accounts, all_results, sf1, sf2, csvfile, csvBuf,
                   idx, result, written, calls, processed_count, uploadVars>>

\* finally: sf1.close(), lines 100-101; an exception ends the script
Finally1 ==
    /\ pc = "c1_finally"
    /\ sf1' = close(sf1)
    /\ pc' = IF raised = NoExc THEN "c2_connect" ELSE "raised"
    /\ UNCHANGED <<raised, csvDisk, skip_processed_check, existing_csv,
                   processed_accounts, all_results, results, sf2, csvfile,
                   csvBuf, idx, result, written, calls, processed_count,
                   uploadVars>>

\* sf2.connect(), line 119
Connect2 ==
    /\ pc = "c2_connect"
    /\ \/ /\ sf2' = connect(sf2)
          /\ pc' = "c2_test"
          /\ UNCHANGED raised
       \/ /\ GenRaise("CONNECT_2", "ConnectionError", "c2_finally")
          /\ UNCHANGED sf2
    /\ UNCHANGED <<csvDisk, skip_processed_check, existing_csv,
                   processed_accounts, all_results, results, sf1, csvfile,
                   csvBuf, idx, result, written, calls, processed_count,
                   uploadVars>>

\* the test query, lines 122-123
TestQuery2 ==
    /\ pc = "c2_test"
    /\ \/ /\ CanExecute(sf2)
          /\ pc' = "open_csv"
          /\ UNCHANGED raised
       \/ GenRaise("TEST_QUERY_2", "StatementError", "c2_finally")
    /\ UNCHANGED <<csvDisk, genVars, uploadVars>>

\* lines 126-131: with records to process the output file is created,
\* empty; with none the try block ends (lines 184-185)
OpenCsv ==
    /\ pc = "open_csv"
    /\ IF results # <<>>
       THEN /\ csvfile' = "open"
            /\ csvDisk' = <<>>
            /\ pc' = "write_header"
       ELSE /\ pc' = "c2_finally"
            /\ UNCHANGED <<csvfile, csvDisk>>
    /\ UNCHANGED <<raised, skip_processed_check, existing_csv,
                   processed_accounts, all_results, results, sf1, sf2, csvBuf,
                   idx, result, written, calls, processed_count, uploadVars>>

\* writer.writeheader(), lines 132-134
WriteHeader ==
    /\ pc = "write_header"
    /\ csvBuf' = csvBuf \o writeheader
    /\ pc' = "flush_header"
    /\ UNCHANGED <<raised, csvDisk, skip_processed_check, existing_csv,
                   processed_accounts, all_results, results, sf1, sf2,
                   csvfile, idx, result, written, calls, processed_count,
                   uploadVars>>

FlushedNothing(disk, buf) == disk

\* csvfile.flush(): the file on stable storage once the buffer is written
Flushed(disk, buf) == disk \o buf

\* csvfile.flush(), line 135, and processed_count = 0, line 140
FlushHeader ==
    /\ pc = "flush_header"
    /\ csvDisk' = Flushed(csvDisk, csvBuf)
    /\ csvBuf' = <<>>
    /\ processed_count' = 0
    /\ idx' = 0
    /\ pc' = "call"
    /\ UNCHANGED <<raised, skip_processed_check, existing_csv,
                   processed_accounts, all_results, results, sf1, sf2,
                   csvfile, result, written, calls, uploadVars>>

\* lines 143-146: the account name without a leading '\\\\'
normalize(account_name) ==
    IF startswith(account_name, BACKSLASH2)
    THEN SubSeq(account_name, 3, Len(account_name))
    ELSE account_name

\* lines 142-156: the remote call of the next record, which gives a URL or
\* raises
RemoteCall ==
    /\ pc = "call"
    /\ idx < Len(results)
    /\ \E r \in ResultPool :
          /\ result' = r
          /\ calls' = Append(calls, [rec |-> idx + 1, result |-> r])
    /\ pc' = "write_row"
    /\ UNCHANGED <<raised, csvDisk, skip_processed_check, existing_csv,
                   processed_accounts, all_results, results, sf1, sf2,
                   csvfile, csvBuf, idx, written, processed_count,
                   uploadVars>>

\* Exceptions of lines 143-155 that the handler of line 168 does not catch:
\* row['ACCOUNT_NAME'] on a row of a custom query without that column is
\* raised before the try statement, and KeyboardInterrupt is not an
\* Exception.
Uncaught == {"KeyError", "KeyboardInterrupt"}

\* lines 142-155: the pass of the loop raises past the handler; control
\* goes to the finally block of line 187, and csvfile.close() of line 179
\* is not reached
LoopRaises ==
    /\ pc = "call"
    /\ idx < Len(results)
    /\ \E name \in Uncaught : GenRaise("LOOP", name, "c2_finally")
    /\ UNCHANGED <<csvDisk, genVars, uploadVars>>

ProcessedRowNoSentinel(row, res) ==
    [account_name |-> normalize(row.ACCOUNT_NAME),
     deployment |-> row.DEPLOYMENT,
     classic_ui_url |-> res.text]

\* The row of lines 160-164 (the call gave a URL) or of lines 171-175 (it
\* raised e: "ERROR: " + str(e)).
ProcessedRow(row, res) ==
    [account_name |-> normalize(row.ACCOUNT_NAME),
     deployment |-> row.DEPLOYMENT,
     classic_ui_url |-> IF res.kind = "ok" THEN res.text
                        ELSE ERROR_PREFIX \o res.text]

RowsWrittenOnSuccessOnly(row, res) ==
    IF res.kind = "ok" THEN <<ProcessedRow(row, res)>> ELSE <<>>

RowsWrittenTwice(row, res) ==
    <<ProcessedRow(row, res), ProcessedRow(row, res)>>

\* The rows one pass of the loop hands to writer.writerow: one in the try
\* branch, one in the except branch.
RowsWritten(row, res) == <<ProcessedRow(row, res)>>

\* writer.writerow(...), lines 160-164 and 171-175
WriteRow ==
    /\ pc = "write_row"
    /\ LET rows == RowsWritten(results[idx + 1], result)
       IN /\ written' = written \o rows
          /\ csvBuf' = csvBuf \o Concat([k \in 1..Len(rows) |-> writerow(rows[k])])
    /\ pc' = "flush_row"
    /\ UNCHANGED <<raised, csvDisk, skip_processed_check, existing_csv,
                   processed_accounts, all_results, results, sf1, sf2,
                   csvfile, idx, result, calls, processed_count, uploadVars>>

\* csvfile.flush() and processed_count += 1, lines 165-166 and 176-177;
\* the loop goes on to the next record or ends
FlushRow ==
    /\ pc = "flush_row"
    /\ csvDisk' = Flushed(csvDisk, csvBuf)
    /\ csvBuf' = <<>>
    /\ processed_count' = processed_count + 1
    /\ idx' = idx + 1
    /\ pc' = IF idx + 1 < Len(results) THEN "call" ELSE "close_csv"
    /\ UNCHANGED <<raised, skip_processed_check, existing_csv,
                   processed_accounts, all_results, results, sf1, sf2,
                   csvfile, result, written, calls, uploadVars>>

\* csvfile.close(), line 179: what is buffered is written
CloseCsv ==
    /\ pc = "close_csv"
    /\ csvDisk' = csvDisk \o csvBuf
    /\ csvBuf' = <<>>
    /\ csvfile' = "closed"
    /\ pc' = "c2_finally"
    /\ UNCHANGED <<raised, skip_processed_check, existing_csv,
                   processed_accounts, all_results, results, sf1, sf2, idx,
                   result, written, calls, processed_count, uploadVars>>

\* finally: sf2.close(), lines 187-188
Finally2 ==
    /\ pc = "c2_finally"
    /\ sf2' = close(sf2)
    /\ pc' = IF raised = NoExc THEN "done" ELSE "raised"
    /\ UNCHANGED <<raised, csvDisk, skip_processed_check, existing_csv,
                   processed_accounts, all_results, results, sf1, csvfile,
                   csvBuf, idx, result, written, calls, processed_count,
                   uploadVars>>

\* The process is killed: what was buffered and not flushed is lost, what
\* stable storage holds stays.
Kill ==
    /\ pc \notin {"done", "raised", "killed"}
    /\ pc' = "killed"
    /\ csvBuf' = <<>>
    /\ UNCHANGED <<raised, csvDisk, skip_processed_check, existing_csv,
                   processed_accounts, all_results, results, sf1, sf2,
                   csvfile, idx, result, written, calls, processed_count,
                   uploadVars>>

GenNext ==
    \/ LoadProcessed
    \/ Connect1
    \/ TestQuery1
    \/ QueryAccounts
    \/ Reconcile
    \/ Finally1
    \/ Connect2
    \/ TestQuery2
    \/ OpenCsv
    \/ WriteHeader
    \/ FlushHeader
    \/ RemoteCall
    \/ LoopRaises
    \/ WriteRow
    \/ FlushRow
    \/ CloseCsv
    \/ Finally2
    \/ Kill

SpecGen == GenInit /\ [][GenNext]_vars

(***************************************************************************)
(* The CSV sink followed by the CSV source: the file the generation loop   *)
(* leaves for a list of processed records, read by read_and_filter_csv.    *)
(***************************************************************************)
\* The file on stable storage after the header and the rows were written
\* and flushed (lines 131-135, 160-165, 179).
SinkFile(rows) ==
    writeheader \o Concat([k \in 1..Len(rows) |-> writerow(rows[k])])

\* Processed records handed to the sink.
ProcessedPool ==
    { [account_name |-> <<"A">>, deployment |-> <<"d", "1">>,
       classic_ui_url |-> <<"u", "r", "l", "1">>],
      [account_name |-> <<"a", ",", "b">>, deployment |-> <<"d", "1">>,
       classic_ui_url |-> <<"q", "\"", "r">>],
      [account_name |-> <<"B">>, deployment |-> <<"d", "2">>,
       classic_ui_url |-> <<"E", "r", "r", "o", "r">>],
      [account_name |-> <<"C">>, deployment |-> <<"d", "1">>,
       classic_ui_url |-> <<"u", "\r", "x">>],
      [account_name |-> <<"D">>, deployment |-> <<>>,
       classic_ui_url |-> <<"u", "r", "l", "3">>],
      [account_name |-> <<"E">>, deployment |-> <<"d", "1">>,
       classic_ui_url |-> <<"E", "R", "R", "O", "R", ":", " ", "x">>],
      [account_name |-> <<"F">>, deployment |-> <<"d", "1">>,
       classic_ui_url |-> <<"l", "\n", "m">>] }

RoundTripInit ==
    /\ pc = "sink"
    /\ raised = NoExc
    /\ csvDisk = NoFile
    /\ skip_processed_check = FALSE
    /\ existing_csv = NoFile
    /\ processed_accounts = {}
    /\ all_results = <<>>
    /\ results = <<>>
    /\ sf1 = SnowflakeConnection
    /\ sf2 = SnowflakeConnection
    /\ csvfile = "None"
    /\ csvBuf = <<>>
    /\ idx = 0
    /\ result = NoResult
    /\ written \in SeqsUpTo(ProcessedPool, MaxRoundTrip)
    /\ calls = <<>>
    /\ processed_count = 0
    /\ UploadIdle

\* The sink writes the header and one row per processed record, flushes
\* and closes the file.
Sink ==
    /\ pc = "sink"
    /\ csvDisk' = SinkFile(written)
    /\ csvfile' = "closed"
    /\ processed_count' = Len(written)
    /\ pc' = "read_csv"
    /\ UNCHANGED <<raised, skip_processed_check, existing_csv,
                   processed_accounts, all_results, results, sf1, sf2, csvBuf,
                   idx, result, written, calls, uploadVars>>

RoundTripNext ==
    \/ Sink
    \/ ReadCsv

SpecRoundTrip == RoundTripInit /\ [][RoundTripNext]_vars

(***************************************************************************)
(* Properties of the generation pipeline.                                  *)
(***************************************************************************)
\* The account names of the prior output file.
PriorNames ==
    IF existing_csv = NoFile THEN {}
    ELSE {row[ACCOUNT_NAME_KEY] : row \in Range(DictReader(existing_csv).rows)}

\* The records of R whose account name is not in P, in R's order.
RECURSIVE WithoutProcessed(_, _)
WithoutProcessed(R, P) ==
    IF R = <<>> THEN <<>>
    ELSE (IF Head(R).ACCOUNT_NAME \in P THEN <<>> ELSE <<Head(R)>>)
         \o WithoutProcessed(Tail(R), P)

\* C1: the reconciliation step yields the records whose account name is not
\* in the prior-processed set, in order, and changes neither the record
\* list nor the set; with the check skipped or the set empty it yields the
\* record list unchanged.
C1_Reconciliation ==
    [][(pc = "reconcile" /\ pc' = "c1_finally") =>
          /\ ~skip_processed_check =>
                results' = WithoutProcessed(all_results, PriorNames)
          /\ (skip_processed_check \/ PriorNames = {}) => results' = all_results
          /\ processed_accounts = (IF skip_processed_check THEN {} ELSE PriorNames)
          /\ all_results' = all_results
          /\ processed_accounts' = processed_accounts]_vars

C1_Witness ==
    /\ pc = "c1_finally"
    /\ raised = NoExc
    /\ Len(all_results) = 2
    /\ Len(results) = 1
    /\ results[1] = all_results[2]

\* C2: the loop writes exactly one row per reconciled record, in input
\* order, whatever the remote calls give: at the end of the run the file
\* holds the header and N data rows.
C2_OneRowPerRecord ==
    /\ Len(written) \in {idx, idx + 1}
    /\ Len(written) <= Len(results)
    /\ \A k \in 1..Len(written) :
          /\ written[k].account_name = normalize(results[k].ACCOUNT_NAME)
          /\ written[k].deployment = results[k].DEPLOYMENT
    /\ pc = "done" =>
          /\ Len(written) = Len(results)
          /\ processed_count = Len(results)
          /\ IF results = <<>> THEN csvDisk = NoFile
             ELSE /\ csvDisk = SinkFile(written)
                  /\ Len(DictReader(csvDisk).rows) = Len(results)

C2_Witness ==
    /\ pc = "done"
    /\ Len(results) = 2
    /\ calls[1].result.kind = "ok"
    /\ calls[2].result.kind = "error"
    /\ Len(DictReader(csvDisk).rows) = 2

\* C3: a remote call that fails with message m leaves the row
\* (account_name, deployment, "ERROR: " + m); every record is called once,
\* in order, and a failure neither ends the loop nor leaves the script as an
\* exception.
C3_FailureIsolated ==
    /\ \A k \in 1..Len(calls) : calls[k].rec = k
    /\ Len(calls) \in {Len(written), Len(written) + 1}
    /\ \A k \in 1..Len(written) :
          calls[k].result.kind = "error" =>
              written[k] =
                 [account_name |-> normalize(results[k].ACCOUNT_NAME),
                  deployment |-> results[k].DEPLOYMENT,
                  classic_ui_url |-> ERROR_PREFIX \o calls[k].result.text]
    /\ (calls # <<>> /\ raised # NoExc) =>
          /\ raised.stage = "LOOP"
          /\ Len(calls) = Len(written)
    /\ pc \in {"write_row", "flush_row"} => raised = NoExc
    /\ (pc = "done" /\ results # <<>>) => Len(calls) = Len(results)

C3_Witness ==
    /\ pc = "write_row"
    /\ Len(calls) = 2
    /\ calls[1].result.kind = "error"
    /\ written[1].classic_ui_url =
          ERROR_PREFIX \o <<"r", "a", "t", "e", " ", "l", "i", "m", "i", "t",
                            "e", "d">>

\* The file holds the header and the rows of the first k records written.
\* It lacks at most the record in flight, and none when the next remote
\* call is about to start.
PrefixOnDisk ==
    \E k \in 0..Len(written) :
        /\ csvDisk = SinkFile(SubSeq(written, 1, k))
        /\ k + 1 >= Len(calls)
        /\ pc = "call" => k = Len(calls)

\* C4 as claimed: whenever the process may be killed the output file on
\* stable storage is the header followed by the rows of a prefix of the
\* records, lacking at most the record in flight.
C4_AsClaimed == csvDisk # NoFile => PrefixOnDisk

\* C4, as the code has it: the same from the flush of the header on; from
\* the creation of the file to that flush the file is empty.
C4_FlushedPrefix ==
    /\ csvDisk = <<>> => written = <<>> /\ calls = <<>>
    /\ csvDisk \notin {NoFile, <<>>} => PrefixOnDisk

C4_Witness ==
    /\ pc = "killed"
    /\ Len(calls) = 2
    /\ Len(written) = 2
    /\ csvDisk = SinkFile(SubSeq(written, 1, 1))

(***************************************************************************)
(* Properties of the round trip.                                           *)
(***************************************************************************)
RecordFields(r) == <<r.account_name, r.deployment, r.classic_ui_url>>

NoFieldEmpty(rows) ==
    \A k \in 1..Len(rows) : \A j \in 1..3 : RecordFields(rows[k])[j] # <<>>

\* A field as it is read back: itself, or itself with its carriage returns
\* translated.
ReadAs(f, translated) == IF translated THEN UniversalNewlines(f) ELSE f

\* What was read back is the N rows, valid, in order, each field of the
\* written record read back as ReadAs gives it.
ReadBack(translated) ==
    /\ raised = NoExc
    /\ error_count = 0
    /\ total_count = Len(written)
    /\ Len(filtered_rows) = Len(written)
    /\ \A k \in 1..Len(written) :
          /\ DOMAIN filtered_rows[k] = Range(fieldnames)
          /\ \A j \in 1..3 :
                RowTuple(filtered_rows[k])[j] =
                    ReadAs(RecordFields(written[k])[j], translated)

\* C10 as claimed: records with no empty field and no URL containing the
\* literal ERROR are all read back as valid, in order, with the same field
\* values.
C10_AsClaimed ==
    (pc \in {"returned", "connect"}
     /\ NoFieldEmpty(written)
     /\ \A k \in 1..Len(written) : ~Contains(ERROR, written[k].classic_ui_url))
    => ReadBack(FALSE)

\* C10, as the code has it: records with no empty field and no URL
\* containing ERROR in any letter case are all read back as valid, in order,
\* with the same field values but for a carriage return, which is read back
\* as a line feed.
C10_RoundTrip ==
    (pc \in {"returned", "connect"}
     /\ NoFieldEmpty(written)
     /\ \A k \in 1..Len(written) :
           ~Contains(ERROR, upper(written[k].classic_ui_url)))
    => ReadBack(TRUE)

C10_Witness ==
    /\ pc = "connect"
    /\ Len(written) = 2
    /\ Len(filtered_rows) = 2
    /\ written[1].account_name = <<"a", ",", "b">>
    /\ written[2].classic_ui_url = <<"u", "\r", "x">>
    /\ filtered_rows[2][URL_KEY] = <<"u", "\n", "x">>

(***************************************************************************)
(* Properties of the upload pipeline.                                      *)
(***************************************************************************)
Last(q) == q[Len(q)]

Ended == pc \in {"returned", "raised"}

\* The rule of rejection: the URL contains ERROR in any letter case, or the
\* account name or the URL is empty or missing.
Rejected(row) ==
    LET url == get(row, URL_KEY, None)
    IN \/ Falsy(url)
       \/ Falsy(get(row, ACCOUNT_NAME_KEY, None))
       \/ Contains(ERROR, upper(url))

\* C5: for every existing CSV file read_and_filter_csv does not raise and
\* returns the rows that are not rejected, in file order, the number of data
\* rows, and the number of rejected rows, which add up.
C5_ReadAndFilter ==
    (pc # "read_csv" /\ csvDisk # NoFile) =>
        LET rows == DictReader(csvDisk).rows
        IN /\ raised.stage # "READ_CSV"
           /\ filtered_rows = SelectSeq(rows, LAMBDA r : ~Rejected(r))
           /\ total_count = Len(rows)
           /\ total_count = Len(filtered_rows) + error_count

\* The file of the scenario: (A,d1,url1), (B,d2,"ERROR: x"), (C,,url3).
ScenarioFile ==
    FileOf(<< <<"A", ",", "d", "1", ",", "u", "r", "l", "1">>,
              <<"B", ",", "d", "2", ",", "E", "R", "R", "O", "R", ":", " ", "x">>,
              <<"C", ",", ",", "u", "r", "l", "3">> >>)

ScenarioRowA ==
    DictRow(fieldnames, << <<"A">>, <<"d", "1">>, <<"u", "r", "l", "1">> >>)

ScenarioRowC ==
    DictRow(fieldnames, << <<"C">>, <<>>, <<"u", "r", "l", "3">> >>)

\* C6, as the code has it: the scenario file yields the two rows A and C as
\* valid (an empty deployment does not reject a row), total_count = 3 and
\* rejected_count = 1.
C6_Scenario ==
    (pc # "read_csv" /\ csvDisk = ScenarioFile) =>
        /\ raised = NoExc \/ raised.stage # "READ_CSV"
        /\ filtered_rows = <<ScenarioRowA, ScenarioRowC>>
        /\ total_count = 3
        /\ error_count = 1

\* C6 as claimed: the scenario file yields valid_rows = [(A,d1,url1)],
\* total_count = 3 and rejected_count = 2.
C6_AsClaimed ==
    (pc # "read_csv" /\ csvDisk = ScenarioFile) =>
        /\ filtered_rows = <<ScenarioRowA>>
        /\ total_count = 3
        /\ error_count = 2

C6_Witness ==
    /\ csvDisk = ScenarioFile
    /\ pc = "connect"
    /\ Len(filtered_rows) = 2

Stages ==
    <<"READ_CSV", "CONNECT", "CREATE_TABLE", "TRUNCATE", "INSERT_BATCHES",
      "VERIFY_COUNT", "CLOSE">>

StageRank(st) == CHOOSE k \in 1..Len(Stages) : Stages[k] = st

\* The stages are entered in the order of Stages, each once but for the
\* insert, which is entered once per chunk; no stage but CLOSE is entered
\* with an earlier one left out; the count query follows the last chunk.
StagesInOrder ==
    /\ \A a, b \in 1..Len(trace) :
          a < b => \/ StageRank(trace[a]) < StageRank(trace[b])
                   \/ trace[a] = "INSERT_BATCHES" /\ trace[b] = "INSERT_BATCHES"
    /\ \A a \in 1..Len(trace) :
          trace[a] # "CLOSE" =>
              \A k \in 1..(StageRank(trace[a]) - 1) : Stages[k] \in Range(trace)
    /\ "VERIFY_COUNT" \in Range(trace) => total_inserted = Len(filtered_rows)
    /\ "INSERT_BATCHES" \in Range(trace) =>
          \E n \in 0..Len(filtered_rows) :
              table = TableOf([k \in 1..n |-> RowTuple(filtered_rows[k])])

\* A stage among S that raises is followed by CLOSE and by nothing else, the
\* session is closed, and the failure leaves main.
RaiseGoesToClose(S) ==
    raised.stage \in S =>
        /\ \/ Last(trace) = raised.stage
           \/ /\ Last(trace) = "CLOSE"
              /\ Len(trace) >= 2
              /\ trace[Len(trace) - 1] = raised.stage
        /\ Ended => /\ pc = "raised"
                    /\ Last(trace) = "CLOSE"
                    /\ sf.connection # "open"
                    /\ sf.cursor # "open"

\* C7, as the code has it: the stages are passed in order, and a stage from
\* CONNECT to VERIFY_COUNT that raises goes directly to CLOSE and the
\* failure is re-raised.
C7_StageOrder ==
    /\ StagesInOrder
    /\ RaiseGoesToClose({"CONNECT", "CREATE_TABLE", "TRUNCATE",
                         "INSERT_BATCHES", "VERIFY_COUNT"})

\* C7 as claimed: the same of every stage before CLOSE, READ_CSV included.
C7_AsClaimed ==
    /\ StagesInOrder
    /\ RaiseGoesToClose({"READ_CSV", "CONNECT", "CREATE_TABLE", "TRUNCATE",
                         "INSERT_BATCHES", "VERIFY_COUNT"})

C7_Witness ==
    /\ pc = "raised"
    /\ raised.stage = "INSERT_BATCHES"
    /\ total_inserted = BATCH_SIZE
    /\ Len(filtered_rows) > BATCH_SIZE
    /\ sf.connection = "closed"

AllRejected == \A row \in Range(DictReader(csvDisk).rows) : Rejected(row)

\* C8: a session is opened, and the table touched, only after the read
\* returned a valid row; when the file is missing or no row is valid main
\* returns normally, with no session and the table as it was.
C8_NoLoadWithoutRows ==
    /\ (sf # SnowflakeConnection \/ table # table0 \/ Len(trace) > 1) =>
          /\ filtered_rows # <<>>
          /\ raised.stage # "READ_CSV"
          /\ trace[1] = "READ_CSV"
    /\ (Ended /\ (csvDisk = NoFile \/ AllRejected)) =>
          /\ pc = "returned"
          /\ sf = SnowflakeConnection
          /\ table = table0
          /\ trace = <<"READ_CSV">>

C8_Witness ==
    /\ pc = "returned"
    /\ csvDisk # NoFile
    /\ total_count = 2
    /\ error_count = 2
    /\ raised = NoExc
    /\ table0 = TableOf(<<OldRow>>)

\* C9: a run that completes leaves in the table exactly the valid rows it
\* was given, whatever the table held, so two completed runs with the same
\* rows leave the same contents and count.
C9_FullReplace ==
    /\ \A k \in 1..Len(loads) :
          /\ loads[k].after =
                TableOf([j \in 1..Len(loads[k].rows) |->
                            RowTuple(loads[k].rows[j])])
          /\ loads[k].count = Len(loads[k].rows)
    /\ \A j, k \in 1..Len(loads) :
          loads[j].rows = loads[k].rows =>
              /\ loads[j].after = loads[k].after
              /\ loads[j].count = loads[k].count

C9_Witness ==
    /\ Len(loads) = 2
    /\ loads[1].rows = loads[2].rows
    /\ loads[2].before = loads[1].after
    /\ loads[2].before.rows # <<>>
    /\ loads[1].before = TableOf(<<OldRow>>)

(***************************************************************************)
(* Properties of the account name's normalization.                         *)
(***************************************************************************)
\* The account names the directory query may return.
RawNames == {r.ACCOUNT_NAME : r \in RecordPool}

\* The reconciliation has run and filtered against a set of names.
ReconciledAgainstSet ==
    /\ pc \notin {"load_processed", "c1_connect", "c1_test", "c1_query",
                  "reconcile"}
    /\ raised = NoExc
    /\ ~skip_processed_check
    /\ processed_accounts # {}

\* C11: normalize strips a leading two-backslash prefix once and leaves a
\* name without it unchanged; the normalized name is the account_name of
\* the row written, and it is the key compared with the prior-processed
\* set: no record kept by the reconciliation has a normalized name in the
\* set.
C11_NormalizedKey ==
    /\ \A name \in RawNames :
          /\ normalize(BACKSLASH2 \o name) = name
          /\ ~startswith(name, BACKSLASH2) => normalize(name) = name
    /\ \A k \in 1..Len(written) :
          written[k].account_name = normalize(results[k].ACCOUNT_NAME)
    /\ ReconciledAgainstSet =>
          \A k \in 1..Len(results) :
              normalize(results[k].ACCOUNT_NAME) \notin processed_accounts

(***************************************************************************)
(* Release of the sessions and of the output file.                         *)
(***************************************************************************)
\* A pipeline has ended, normally or by an exception.
RunEnded == pc \in {"done", "returned", "raised"}

SessionReleased(s) == s.connection # "open" /\ s.cursor # "open"

\* C12: no run ends, normally or by an exception, with a session, its
\* cursor or the output file still open.
C12_AllReleased ==
    RunEnded =>
        /\ SessionReleased(sf1)
        /\ SessionReleased(sf2)
        /\ SessionReleased(sf)
        /\ csvfile # "open"

(***************************************************************************)
(* Properties of batch_insert_rows.                                        *)
(***************************************************************************)
\* ceil(n / b)
CeilDiv(n, b) == (n + b - 1) \div b

\* The rows of the list as executemany takes them, in list order.
AllRowTuples == [k \in 1..Len(filtered_rows) |-> RowTuple(filtered_rows[k])]

\* The pass of the loop that raised, or 0.
FailedChunk == IF pc = "except" THEN Len(batches) ELSE 0

\* C13: batch_insert_rows submits the rows of a list of length n, with
\* batch size b >= 1, in ceil(n/b) consecutive chunks, each of at most b
\* rows and all but the last of exactly b: every row is submitted once, in
\* list order, and n is returned; when a chunk's insert raises no later
\* chunk is submitted and the failure leaves the function.
C13_Chunks ==
    LET n == Len(filtered_rows)
        b == batch_size
    IN /\ Len(batches) <= CeilDiv(n, b)
       /\ \A k \in 1..Len(batches) :
             /\ Len(batches[k]) \in 1..b
             /\ k < CeilDiv(n, b) => Len(batches[k]) = b
       /\ Concat(batches) = SubSeq(AllRowTuples, 1, Min(Len(batches) * b, n))
       /\ pc = "insert" => total_inserted = Len(batches) * b
       /\ pc = "verify_count" =>
             /\ Len(batches) = CeilDiv(n, b)
             /\ Concat(batches) = AllRowTuples
             /\ total_inserted = n
             /\ raised = NoExc
       /\ pc = "except" =>
             /\ raised.stage = "INSERT_BATCHES"
             /\ FailedChunk \in 1..CeilDiv(n, b)
             /\ table.rows = SubSeq(AllRowTuples, 1, (FailedChunk - 1) * b)
             /\ ~ENABLED InsertBatch

C13_Witness ==
    /\ pc = "verify_count"
    /\ Len(filtered_rows) = 4
    /\ batch_size = 3
    /\ Len(batches) = 2
    /\ Len(batches[2]) = 1
    /\ total_inserted = 4

(***************************************************************************)
(* Uniqueness of account_name in the output of one generation run.         *)
(***************************************************************************)
\* No two elements of a sequence of names are the same.
Distinct(names) ==
    \A j, k \in 1..Len(names) : j # k => names[j] # names[k]

\* The account names of the data rows written by the run, in order.
WrittenNames == [k \in 1..Len(written) |-> written[k].account_name]

\* The normalized account names of the reconciled records, in order.
NormalizedNames ==
    [k \in 1..Len(results) |-> normalize(results[k].ACCOUNT_NAME)]

\* C14 as claimed: no two data rows written by one run carry the same
\* account_name, whatever record list was extracted.
C14_AsClaimed == Distinct(WrittenNames)

\* C14, as the code has it: the rows carry the normalized names of the
\* reconciled records, one per record and in order, nothing being
\* suppressed within the run; so the names of the rows of a completed run
\* are pairwise distinct exactly when those normalized names are.
C14_UniqueIffInputUnique ==
    /\ Len(written) <= Len(results)
    /\ WrittenNames = SubSeq(NormalizedNames, 1, Len(written))
    /\ Distinct(NormalizedNames) => Distinct(WrittenNames)
    /\ pc = "done" =>
          /\ Len(written) = Len(results)
          /\ Distinct(WrittenNames) <=> Distinct(NormalizedNames)

C14_Witness ==
    /\ pc = "done"
    /\ Len(results) = 2
    /\ results[1].ACCOUNT_NAME = BACKSLASH2 \o <<"A">>
    /\ results[2].ACCOUNT_NAME = <<"B">>
    /\ WrittenNames = << <<"A">>, <<"B">> >>

====
